---- MODULE Spec2Model ----
(***************************************************************************)
(* X watcher (server.mjs): the polling and change-detection engine with   *)
(* its SSE fan-out.  One JavaScript event loop: every action below is one *)
(* macrotask of the program (a timer tick, an HTTP request, the arrival   *)
(* of a remote response, the completion of a file write) together with    *)
(* all the promise continuations it triggers before the loop goes idle.   *)
(*                                                                         *)
(* Strings the program takes apart (names, usernames) are sequences of    *)
(* one-character strings; the empty string is <<>>.  Strings the program  *)
(* only stores or compares (ids, messages) are TLA+ strings.               *)
(***************************************************************************)
EXTENDS Integers, Sequences, FiniteSets, TLC

VARIABLES
  phase,                \* "boot" before start() has loaded, "startup" during the awaited first poll, "serving" after listen
  file,                 \* config/accounts.json: NoFile, or the list of raw entries
  token,                \* X_BEARER_TOKEN is non-empty
  accounts,             \* const accounts = []
  clients,              \* const clients = new Set()
  lastPollCompletedAt,  \* let lastPollCompletedAt = ""
  now,                  \* the wall clock read by new Date(), in poll intervals
  tasks,                \* refreshOneAccount calls suspended at a remote request
  polls,                \* the pollAccounts calls so far: how many refreshes each started
  adds,                 \* POST /api/accounts requests received so far
  events,               \* every broadcastEvent call, in order (history)
  hist,                 \* per account, its settled refreshOneAccount calls, in order (history)
  conns,                \* the GET /events connections so far: what was written to each, and when it was open (history)
  faulty,               \* the pollAccounts calls whose `state` broadcast throws (environment)
  userIdCache,          \* api/state.mjs: const userIdCache = new Map()
  requests,             \* api/state.mjs: the handler invocations so far
  post,                 \* the raw tweet and media list given to serializeTweet
  normalized            \* what serializeTweet returned for it

vars == <<phase, file, token, accounts, clients, lastPollCompletedAt, now,
          tasks, polls, adds, events, hist, conns, faulty,
          userIdCache, requests, post, normalized>>

----------------------------------------------------------------------------
(* Bounds of the model.                                                    *)

\* timer ticks and POST /api/accounts requests the environment delivers in all
MaxStimuli == 2
\* distinct tweet ids the remote feed can show
MaxTweetId == 2
\* GET /events connections the environment opens in all
MaxClients == 2
\* media keys and link entities of a raw tweet given to serializeTweet
MaxAttachments == 2
\* variants of a raw media object given to serializeTweetMedia
MaxVariants == 3
\* invocations of the serverless handler the environment makes in all
MaxRequests == 3

----------------------------------------------------------------------------
(* Strings.                                                                *)

UpperChars == <<"A","B","C","D","E","F","G","H","I","J","K","L","M",
                "N","O","P","Q","R","S","T","U","V","W","X","Y","Z">>
LowerChars == <<"a","b","c","d","e","f","g","h","i","j","k","l","m",
                "n","o","p","q","r","s","t","u","v","w","x","y","z">>
DigitChars == <<"0","1","2","3","4","5","6","7","8","9">>
SpaceChars == {" ", "\t", "\n"}

Range(s) == { s[i] : i \in DOMAIN s }

\* String.prototype.toLowerCase, one character
toLowerChar(c) ==
  IF \E i \in DOMAIN UpperChars : UpperChars[i] = c
  THEN LowerChars[CHOOSE i \in DOMAIN UpperChars : UpperChars[i] = c]
  ELSE c

\* String.prototype.toLowerCase
toLowerCase(s) == [i \in 1..Len(s) |-> toLowerChar(s[i])]

RECURSIVE trimStart(_)
trimStart(s) ==
  IF Len(s) > 0 /\ s[1] \in SpaceChars THEN trimStart(Tail(s)) ELSE s

RECURSIVE trimEnd(_)
trimEnd(s) ==
  IF Len(s) > 0 /\ s[Len(s)] \in SpaceChars
  THEN trimEnd(SubSeq(s, 1, Len(s) - 1)) ELSE s

\* String.prototype.trim
trim(s) == trimEnd(trimStart(s))

\* s.replace(/^@/, "")
stripAt(s) == IF Len(s) > 0 /\ s[1] = "@" THEN Tail(s) ELSE s

\* the length limit of the handle pattern {1,15}
MaxHandleLen == 15

\* the character class [A-Za-z0-9_]
HandleChars == Range(UpperChars) \cup Range(LowerChars) \cup Range(DigitChars) \cup {"_"}

\* /^[A-Za-z0-9_]{1,15}$/.test(username)
matchesHandlePattern(s) ==
  /\ Len(s) >= 1
  /\ Len(s) <= MaxHandleLen
  /\ \A i \in 1..Len(s) : s[i] \in HandleChars

----------------------------------------------------------------------------
(* The account list file and the registry.                                 *)

\* a JSON value read from the file: a string, or something that is not one
Str(s) == [isString |-> TRUE, v |-> s]
NotAString == [isString |-> FALSE, v |-> <<>>]

\* one element of the parsed array: null, or an object with two fields
Entry(n, u) == [isObject |-> TRUE, name |-> n, username |-> u]
NullEntry == [isObject |-> FALSE, name |-> NotAString, username |-> NotAString]

\* what saveAccounts writes for one account
Saved(n, u) == Entry(Str(n), Str(u))

\* the file on disk: missing, or holding a parsed array
FileOf(entries) == [exists |-> TRUE, entries |-> entries]
NoFile == [exists |-> FALSE, entries |-> <<>>]

\* the starter list ensureAccountsFile writes when the file is missing
StarterFile ==
  << Saved(<<"B","T","S">>, <<"b","t","s","_","b","i","g","h","i","t">>),
     Saved(<<"S","t","r","a","y"," ","K","i","d","s">>,
           <<"S","t","r","a","y","_","K","i","d","s">>),
     Saved(<<"B","L","A","C","K","P","I","N","K">>,
           <<"B","L","A","C","K","P","I","N","K">>) >>

\* ensureAccountsFile: the file as it is once the call returns
ensureAccountsFile(f) == IF ~f.exists THEN FileOf(StarterFile) ELSE f

\* a key that keeps the letter case
usernameKeyCaseSensitive(username) == username

\* username.toLowerCase(), the usernameKey of an account
usernameKeyOf(username) == toLowerCase(username)

\* a new account that counts as initialized from the start
NewAccountInitialized(name, username) ==
  [ name                 |-> name,
    username             |-> username,
    usernameKey          |-> usernameKeyOf(username),
    userId               |-> "",
    recentTweets         |-> <<>>,
    latestTweetId        |-> "",
    latestTweetText      |-> "",
    latestTweetCreatedAt |-> "",
    latestTweetUrl       |-> <<>>,
    error                |-> "",
    initialized          |-> TRUE,
    lastCheckedAt        |-> <<>> ]

\* the account object literal of loadAccounts and handleAddAccount
NewAccount(name, username) ==
  [ name                 |-> name,
    username             |-> username,
    usernameKey          |-> usernameKeyOf(username),
    userId               |-> "",
    recentTweets         |-> <<>>,
    latestTweetId        |-> "",
    latestTweetText      |-> "",
    latestTweetCreatedAt |-> "",
    latestTweetUrl       |-> <<>>,
    error                |-> "",
    initialized          |-> FALSE,
    lastCheckedAt        |-> <<>> ]

\* the loop of loadAccounts over the parsed array
RECURSIVE loadLoop(_, _, _)
loadLoop(parsed, seen, acc) ==
  IF parsed = <<>> THEN acc
  ELSE LET item == Head(parsed)
           rest == Tail(parsed)
       IN IF ~item.isObject \/ ~item.name.isString \/ ~item.username.isString
          THEN loadLoop(rest, seen, acc)
          ELSE LET username == stripAt(trim(item.username.v))
                   key == usernameKeyOf(username)
                   nm == trim(item.name.v)
               IN IF username = <<>> THEN loadLoop(rest, seen, acc)
                  ELSE IF key \in seen THEN loadLoop(rest, seen, acc)
                  ELSE loadLoop(rest, seen \cup {key},
                         Append(acc, NewAccount(IF nm = <<>> THEN username ELSE nm,
                                                username)))

\* loadAccounts: the registry built from the parsed file
loadAccounts(parsed) == loadLoop(parsed, {}, <<>>)

\* saveAccounts: the list written to the file
serializable(accts) ==
  [i \in 1..Len(accts) |-> Saved(accts[i].name, accts[i].username)]

----------------------------------------------------------------------------
(* The content normalizer.  A URL is a sequence of strings read as their   *)
(* concatenation; <<>> is the empty (falsy) URL.                           *)

\* a raw variant of a video: { content_type, bitrate, url }
Variant(ct, br, u) == [content_type |-> ct, bitrate |-> br, url |-> u]

\* a choice among all the variants that have a url, whatever their type
pickBestOfAnyType(variants) ==
  LET withUrl == SelectSeq(variants, LAMBDA v : v.url # <<>>)
  IN IF withUrl = <<>> THEN <<>>
     ELSE withUrl[CHOOSE i \in DOMAIN withUrl :
                    /\ \A j \in DOMAIN withUrl : withUrl[j].bitrate <= withUrl[i].bitrate
                    /\ \A j \in 1..(i - 1) : withUrl[j].bitrate < withUrl[i].bitrate].url

\* mp4Only: the variants with content_type "video/mp4" and a url, in order
RECURSIVE mp4Only(_)
mp4Only(variants) ==
  IF variants = <<>> THEN <<>>
  ELSE LET v == Head(variants)
       IN IF v.content_type = "video/mp4" /\ v.url # <<>>
          THEN <<v>> \o mp4Only(Tail(variants))
          ELSE mp4Only(Tail(variants))

\* the first element of a stable sort by descending bitrate
sortedFirst(list) ==
  list[CHOOSE i \in DOMAIN list :
         /\ \A j \in DOMAIN list : list[j].bitrate <= list[i].bitrate
         /\ \A j \in 1..(i - 1) : list[j].bitrate < list[i].bitrate]

\* pickBestVideoVariant(variants); variants is <<>> when absent or no array
pickBestVideoVariant(variants) ==
  IF variants = <<>> THEN <<>>
  ELSE IF mp4Only(variants) = <<>> THEN <<>>
  ELSE sortedFirst(mp4Only(variants)).url

\* a raw media object of includes.media
RawMedia(key, type, url, preview, variants) ==
  [media_key |-> key, type |-> type, url |-> url,
   preview_image_url |-> preview, variants |-> variants]

\* the displayUrl of serializeTweetMedia
displayUrlOf(media) ==
  IF media.type = "photo" THEN media.url
  ELSE IF media.preview_image_url # <<>> THEN media.preview_image_url
  ELSE media.url

\* openUrl: directUrl || videoUrl || displayUrl
openUrlOf(media) ==
  IF media.url # <<>> THEN media.url
  ELSE IF pickBestVideoVariant(media.variants) # <<>>
       THEN pickBestVideoVariant(media.variants)
  ELSE displayUrlOf(media)

\* serializeTweetMedia(media) as a list: <<>> for null, else one entry
serializeTweetMedia(found) ==
  IF found = <<>> THEN <<>>
  ELSE LET media == found[1]
       IN IF displayUrlOf(media) = <<>> THEN <<>>
          ELSE << [type |-> media.type,
                   displayUrl |-> displayUrlOf(media),
                   openUrl |-> openUrlOf(media)] >>

\* mediaByKey.get(key) as a list: the last media with that key, or <<>>
mediaByKeyGet(includeMedia, key) ==
  LET hits == { i \in DOMAIN includeMedia : includeMedia[i].media_key = key }
  IN IF hits = {} \/ key = "" THEN <<>>
     ELSE << includeMedia[CHOOSE i \in hits : \A j \in hits : j <= i] >>

\* the extensions of imageRegex
ImageExtensions ==
  { <<"p","n","g">>, <<"j","p","g">>, <<"j","p","e","g">>,
    <<"g","i","f">>, <<"w","e","b","p">> }

\* /\.(png|jpe?g|gif|webp)(\?|$)/i .test(url), url a sequence of characters
imageRegexTest(url) ==
  \E i \in DOMAIN url : \E ext \in ImageExtensions :
    /\ url[i] = "."
    /\ i + Len(ext) <= Len(url)
    /\ toLowerCase(SubSeq(url, i + 1, i + Len(ext))) = ext
    /\ \/ i + Len(ext) = Len(url)
       \/ url[i + Len(ext) + 1] = "?"

\* a link entity of tweet.entities.urls
UrlEntity(expanded, short) == [expanded_url |-> expanded, url |-> short]

\* extractImageLinksFromEntities(tweet)
RECURSIVE extractImageLinks(_)
extractImageLinks(urls) ==
  IF urls = <<>> THEN <<>>
  ELSE LET item == Head(urls)
           expanded == IF item.expanded_url # <<>> THEN item.expanded_url ELSE item.url
       IN IF expanded # <<>> /\ imageRegexTest(expanded)
          THEN <<expanded>> \o extractImageLinks(Tail(urls))
          ELSE extractImageLinks(Tail(urls))

\* a raw tweet of the remote response
RawTweet(id, text, created, keys, urls) ==
  [id |-> id, text |-> text, created_at |-> created,
   media_keys |-> keys, urls |-> urls]

\* mediaKeys.map(serializeTweetMedia).filter(Boolean)
RECURSIVE structuredMedia(_, _)
structuredMedia(keys, includeMedia) ==
  IF keys = <<>> THEN <<>>
  ELSE serializeTweetMedia(mediaByKeyGet(includeMedia, Head(keys)))
         \o structuredMedia(Tail(keys), includeMedia)

\* the external_image entries pushed for the entity links
externalImages(links) ==
  [i \in 1..Len(links) |->
     [type |-> "external_image", displayUrl |-> links[i], openUrl |-> links[i]]]

\* a media list that holds the structured entries and the entity links together
mediaOfBoth(tweet, includeMedia) ==
  structuredMedia(tweet.media_keys, includeMedia)
    \o externalImages(extractImageLinks(tweet.urls))

\* the media list of serializeTweet
mediaOf(tweet, includeMedia) ==
  IF structuredMedia(tweet.media_keys, includeMedia) # <<>>
  THEN structuredMedia(tweet.media_keys, includeMedia)
  ELSE externalImages(extractImageLinks(tweet.urls))

\* toTweetUrl(account, tweetId)
toTweetUrl(username, tweetId) ==
  <<"https://x.com/">> \o username \o <<"/status/", tweetId>>

\* serializeTweet(account, tweet, mediaByKey)
serializeTweet(username, tweet, includeMedia) ==
  [ id        |-> tweet.id,
    text      |-> tweet.text,
    createdAt |-> tweet.created_at,
    url       |-> toTweetUrl(username, tweet.id),
    media     |-> mediaOf(tweet, includeMedia) ]

\* a remote response body: { data: [...], includes: { media: [...] } }
Response(list, includeMedia) == [data |-> list, media |-> includeMedia]

\* fetchRecentTweets(account), given the response body
normalize(username, resp) ==
  [i \in 1..Len(resp.data) |-> serializeTweet(username, resp.data[i], resp.media)]

\* serializeAccount(account)
serializeAccount(account) ==
  [ name                 |-> account.name,
    username             |-> account.username,
    recentTweets         |-> account.recentTweets,
    latestTweetId        |-> account.latestTweetId,
    latestTweetText      |-> account.latestTweetText,
    latestTweetCreatedAt |-> account.latestTweetCreatedAt,
    latestTweetUrl       |-> account.latestTweetUrl,
    error                |-> account.error,
    lastCheckedAt        |-> account.lastCheckedAt ]

----------------------------------------------------------------------------
(* The remote API and the inputs of the model.                             *)

TweetIdStrings == <<"100", "101", "102", "103", "104", "105", "106">>

\* max_results of the request of fetchRecentTweets
MaxResults == 5
\* the length of a remote feed that is longer than one page of results
LongFeed == 6

\* the photo the remote attaches to the tweets with an even number
PhotoOf(n) == RawMedia("m", "photo", <<"https://img/", TweetIdStrings[n]>>, <<>>, <<>>)

\* the n-th tweet of the remote feed
FeedTweet(n) ==
  RawTweet(TweetIdStrings[n], "text", "2024-01-01T00:00:00.000Z",
           IF n % 2 = 0 THEN <<"m">> ELSE <<>>, <<>>)

\* the response of the remote to the request of fetchRecentTweets when the feed
\* holds n tweets (n = 0: none): the newest first, max_results of them at most
Feed(n) ==
  Response([i \in 1..(IF n < MaxResults THEN n ELSE MaxResults) |-> FeedTweet(n + 1 - i)],
           IF n >= 2 THEN <<PhotoOf(2 * (n \div 2))>> ELSE <<>>)

\* the response of a remote (X_API_BASE_URL) that does not apply max_results
\* to a feed of n tweets
Unpaged(n) ==
  Response([i \in 1..n |-> FeedTweet(n + 1 - i)],
           IF n >= 2 THEN <<PhotoOf(2 * (n \div 2))>> ELSE <<>>)

FetchResponses == { Feed(n) : n \in 0..MaxTweetId }

\* a refresh that settled without a response body
NoResponse == Response(<<>>, <<>>)

\* the ids the remote may answer a lookup with
UserIds == {"u1", "u2"}

\* the messages of the errors thrown by xApiRequest and resolveUserId
ApiErrorMsg == "X API error (503): Service Unavailable"
NoUserIdMsg == "User ID not found."
\* stands for the message of line 306
NoTokenMsg == "X_BEARER_TOKEN is not set"

ResolveErrors == {ApiErrorMsg, NoUserIdMsg}

\* stands for the message of an error thrown by pollAccounts itself
ThrownMsg == "Unexpected polling error."

cA == <<"A">>
cB == <<"B">>
uFo == <<"f","o">>
uFO == <<"F","O">>
uBa == <<"b","a">>

\* contents of config/accounts.json at startup
StartFiles ==
  { FileOf(<<>>),
    FileOf(<<Saved(cA, uFo), Saved(cB, uFO)>>),
    FileOf(<<NullEntry, Entry(NotAString, Str(uBa)), Saved(<<" ">>, <<" ","@","b","a"," ">>),
             Saved(cA, <<"@">>), Saved(cA, <<"B","A">>)>>) }

\* bodies of POST /api/accounts: name and username as sent
Body(name, username) == [parses |-> TRUE, name |-> name, username |-> username]
BadBody == [parses |-> FALSE, name |-> <<>>, username |-> <<>>]

TooLong == [i \in 1..(MaxHandleLen + 1) |-> "x"]

AddBodies ==
  { Body(cA, <<"@","F","O">>),
    Body(cB, <<" ","z","Z"," ">>),
    Body(cA, <<"Z","z">>),
    Body(<<" ">>, <<"z","z">>),
    Body(cA, <<>>),
    Body(cA, <<"b"," ","d">>),
    Body(cA, TooLong),
    BadBody }

----------------------------------------------------------------------------
(* The state machine.                                                      *)

\* new Date().toISOString()
Iso(t) == <<t>>

\* who called refreshOneAccount: the n-th pollAccounts or the n-th add request
Cycle(n) == [kind |-> "cycle", n |-> n]
AddReq(n) == [kind |-> "add", n |-> n]

\* the content fields of an account
Content(a) ==
  <<a.recentTweets, a.latestTweetId, a.latestTweetText,
    a.latestTweetCreatedAt, a.latestTweetUrl>>

\* the payload of a `state` event
StatePayload(accts, t, completedAt) ==
  [ serverTime          |-> Iso(t),
    lastPollCompletedAt |-> completedAt,
    accounts            |-> [i \in 1..Len(accts) |-> serializeAccount(accts[i])] ]

\* what broadcastEvent writes to a response: `event: type` and `data: payload`
Frame(type, payload) == [type |-> type, payload |-> payload]

\* broadcastEvent(type, payload): the call, and the clients it writes to
Event(type, payload, owner, acct) ==
  [type |-> type, payload |-> payload, src |-> owner, acct |-> acct, to |-> clients]

\* a settled refreshOneAccount call
Settled(owner, result, a, resp) ==
  [owner |-> owner, result |-> result,
   newest |-> a.latestTweetId, content |-> Content(a), resp |-> resp]

\* a first part of refreshOneAccount that leaves the error as it was
BegunKeepingError(a) == [a EXCEPT !.lastCheckedAt = Iso(now')]

\* refreshOneAccount up to its first await
Begun(a) ==
  [a EXCEPT !.error = IF token THEN "" ELSE NoTokenMsg,
            !.lastCheckedAt = Iso(now')]

\* the suspended call: at the lookup when userId is empty, else at the fetch
Task(i, owner, a) ==
  [acct |-> i, owner |-> owner,
   pc |-> IF a.userId = "" THEN "resolve" ELSE "fetch",
   before |-> Content(a), h0 |-> IF i \in DOMAIN hist THEN Len(hist[i]) ELSE 0]

\* a catch block that also resets the content fields
FailedAndCleared(a, msg) ==
  [a EXCEPT !.error = msg, !.recentTweets = <<>>, !.latestTweetId = "",
            !.latestTweetText = "", !.latestTweetCreatedAt = "",
            !.latestTweetUrl = <<>>]

\* a catch block that also marks the account initialized
FailedAndInitialized(a, msg) == [a EXCEPT !.error = msg, !.initialized = TRUE]

\* the catch block of refreshOneAccount
Failed(a, msg) == [a EXCEPT !.error = msg]

\* the newest tweet's id, or "" when the list is empty
newestId(recentTweets) == IF recentTweets = <<>> THEN "" ELSE recentTweets[1].id

\* assignments that put the fetched items in front of the previous list
UpdatedMerging(a, recentTweets) ==
  [a EXCEPT !.recentTweets = recentTweets \o @,
            !.latestTweetId = newestId(recentTweets),
            !.latestTweetText = IF recentTweets = <<>> THEN "" ELSE recentTweets[1].text,
            !.latestTweetCreatedAt = IF recentTweets = <<>> THEN "" ELSE recentTweets[1].createdAt,
            !.latestTweetUrl = IF recentTweets = <<>> THEN <<>> ELSE recentTweets[1].url,
            !.initialized = TRUE]

\* assignments that keep the previous id when the fetch returns no item
UpdatedKeepingId(a, recentTweets) ==
  [a EXCEPT !.recentTweets = recentTweets,
            !.latestTweetId = IF recentTweets = <<>> THEN @ ELSE recentTweets[1].id,
            !.latestTweetText = IF recentTweets = <<>> THEN "" ELSE recentTweets[1].text,
            !.latestTweetCreatedAt = IF recentTweets = <<>> THEN "" ELSE recentTweets[1].createdAt,
            !.latestTweetUrl = IF recentTweets = <<>> THEN <<>> ELSE recentTweets[1].url,
            !.initialized = TRUE]

\* the assignments of refreshOneAccount after a successful fetch
Updated(a, recentTweets) ==
  [a EXCEPT !.recentTweets = recentTweets,
            !.latestTweetId = newestId(recentTweets),
            !.latestTweetText = IF recentTweets = <<>> THEN "" ELSE recentTweets[1].text,
            !.latestTweetCreatedAt = IF recentTweets = <<>> THEN "" ELSE recentTweets[1].createdAt,
            !.latestTweetUrl = IF recentTweets = <<>> THEN <<>> ELSE recentTweets[1].url,
            !.initialized = TRUE]

\* a condition that forgets the baseline: any newest item that differs notifies
shouldNotifyWithoutBaseline(a, recentTweets) ==
  /\ recentTweets # <<>>
  /\ a.latestTweetId # newestId(recentTweets)

\* a condition that does not ask for a previous id
shouldNotifyWithoutPrevious(a, recentTweets) ==
  /\ a.initialized
  /\ recentTweets # <<>>
  /\ a.latestTweetId # newestId(recentTweets)

\* the condition of the new_post broadcast: wasInitialized &&
\* previousLatestTweetId && newest && previousLatestTweetId !== newest.id
shouldNotify(a, recentTweets) ==
  /\ a.initialized
  /\ a.latestTweetId # ""
  /\ recentTweets # <<>>
  /\ a.latestTweetId # newestId(recentTweets)

\* the event of a new post, broadcast twice
newPostEventsTwice(old, new, owner, i) ==
  IF shouldNotify(old, new.recentTweets)
  THEN << Event("new_post", [account |-> serializeAccount(new),
                             detectedAt |-> Iso(now)], owner, i),
          Event("new_post", [account |-> serializeAccount(new),
                             detectedAt |-> Iso(now)], owner, i) >>
  ELSE <<>>

\* the broadcastEvent calls of a refresh whose fetch succeeded: `old` is the
\* account as the fetch found it, `new` the account after the assignments
newPostEvents(old, new, owner, i) ==
  IF shouldNotify(old, new.recentTweets)
  THEN << Event("new_post", [account |-> serializeAccount(new),
                             detectedAt |-> Iso(now)], owner, i) >>
  ELSE <<>>

\* a join that waits for every refresh in flight, whoever called it
ContinueWhenNothingInFlight(owner, accts, left, evs) ==
  IF owner.kind = "cycle"
  THEN IF left # {}
       THEN /\ events' = evs
            /\ phase' = IF phase = "boot" THEN "startup" ELSE phase
            /\ UNCHANGED <<lastPollCompletedAt, adds>>
       ELSE /\ lastPollCompletedAt' = Iso(now')
            /\ events' = Append(evs,
                 Event("state", StatePayload(accts, now', Iso(now')), owner, 0))
            /\ phase' = "serving"
            /\ UNCHANGED adds
  ELSE /\ adds' = [adds EXCEPT ![owner.n].status = 201, ![owner.n].pc = "done"]
       /\ events' = Append(evs, Event("state",
                      StatePayload(accts, now', lastPollCompletedAt), owner, 0))
       /\ UNCHANGED <<lastPollCompletedAt, phase>>

\* what runs once a refresh called by `owner` has settled: pollAccounts
\* after Promise.allSettled, or handleAddAccount after its await
Continue(owner, accts, left, evs) ==
  IF owner.kind = "cycle"
  THEN IF \E t \in left : t.owner = owner
       THEN /\ events' = evs
            /\ phase' = IF phase = "boot" THEN "startup" ELSE phase
            /\ UNCHANGED <<lastPollCompletedAt, adds>>
       ELSE /\ lastPollCompletedAt' = Iso(now')
            /\ events' = Append(evs,
                 IF owner.n \in faulty
                 THEN Event("error", [message |-> ThrownMsg,
                                      occurredAt |-> Iso(now')], owner, 0)
                 ELSE Event("state", StatePayload(accts, now', Iso(now')), owner, 0))
            /\ phase' = "serving"
            /\ UNCHANGED adds
  ELSE /\ adds' = [adds EXCEPT ![owner.n].status = 201, ![owner.n].pc = "done"]
       /\ events' = Append(evs, Event("state",
                      StatePayload(accts, now', lastPollCompletedAt), owner, 0))
       /\ UNCHANGED <<lastPollCompletedAt, phase>>

\* pollAccounts up to its await: every account's refresh begins
PollBegin(n, accts) ==
  LET begun == [i \in 1..Len(accts) |-> Begun(accts[i])]
      started == IF token THEN { Task(i, Cycle(n), accts[i]) : i \in 1..Len(accts) }
                 ELSE {}
      h == IF n = 1 THEN [i \in 1..Len(accts) |-> <<>>] ELSE hist
  IN /\ accounts' = begun
     /\ tasks' = tasks \cup started
     /\ hist' = IF token THEN h
                ELSE [i \in 1..Len(accts) |->
                        Append(h[i], Settled(Cycle(n), "notoken", begun[i], NoResponse))]
     /\ polls' = Append(polls, Len(accts))
     /\ Continue(Cycle(n), begun, tasks \cup started, events)

\* start(): loadAccounts, then the first pollAccounts
Start ==
  /\ phase = "boot"
  /\ file' = ensureAccountsFile(file)
  /\ now' = now
  /\ LET loaded == loadAccounts(ensureAccountsFile(file).entries)
     IN PollBegin(1, loaded)
  /\ UNCHANGED <<token, clients>>


\* a timer that is cleared by the first error of a pollAccounts call
TickUntilError ==
  /\ phase = "serving"
  /\ \A k \in DOMAIN events : events[k].type # "error"
  /\ (Len(polls) - 1) + Len(adds) < MaxStimuli
  /\ now' = now + 1
  /\ PollBegin(Len(polls) + 1, accounts)
  /\ UNCHANGED <<file, token, clients>>

\* a tick of setInterval: pollAccounts is called, whatever is still in flight
Tick ==
  /\ phase = "serving"
  /\ (Len(polls) - 1) + Len(adds) < MaxStimuli
  /\ now' = now + 1
  /\ PollBegin(Len(polls) + 1, accounts)
  /\ UNCHANGED <<file, token, clients>>

\* the lookup answers with an id: resolveUserId assigns it, the fetch is issued
ResolveOk(t, id) ==
  /\ t \in tasks
  /\ t.pc = "resolve"
  /\ accounts' = [accounts EXCEPT ![t.acct].userId = id]
  /\ tasks' = (tasks \ {t}) \cup {[t EXCEPT !.pc = "fetch"]}
  /\ UNCHANGED <<phase, file, token, clients, lastPollCompletedAt, now,
                 polls, adds, events, hist>>

\* a remote request of the refresh fails, or the lookup carries no id
RefreshFail(t, msg) ==
  /\ t \in tasks
  /\ t.pc = "resolve" \/ msg = ApiErrorMsg
  /\ now' = now
  /\ LET accts == [accounts EXCEPT ![t.acct] = Failed(@, msg)]
     IN /\ accounts' = accts
        /\ tasks' = tasks \ {t}
        /\ hist' = [hist EXCEPT ![t.acct] =
                      Append(@, Settled(t.owner, "fail", accts[t.acct], NoResponse))]
        /\ Continue(t.owner, accts, tasks \ {t}, events)
  /\ UNCHANGED <<file, token, clients, polls>>

\* the fetch answers: the account is updated and new_post maybe broadcast
FetchOk(t, resp) ==
  /\ t \in tasks
  /\ t.pc = "fetch"
  /\ now' = now
  /\ LET old == accounts[t.acct]
         recentTweets == normalize(old.username, resp)
         accts == [accounts EXCEPT ![t.acct] = Updated(old, recentTweets)]
         evs == events \o newPostEvents(old, accts[t.acct], t.owner, t.acct)
     IN /\ accounts' = accts
        /\ tasks' = tasks \ {t}
        /\ hist' = [hist EXCEPT ![t.acct] =
                      Append(@, Settled(t.owner, "ok", accts[t.acct], resp))]
        /\ Continue(t.owner, accts, tasks \ {t}, evs)
  /\ UNCHANGED <<file, token, clients, polls>>

\* checks that look for the duplicate by the username as typed
addStatusByUsername(body, accts) ==
  LET name == trim(body.name)
      username == stripAt(trim(body.username))
  IN IF ~body.parses THEN 500
     ELSE IF name = <<>> \/ username = <<>> THEN 400
     ELSE IF ~matchesHandlePattern(username) THEN 400
     ELSE IF \E i \in DOMAIN accts : accts[i].username = username THEN 409
     ELSE 0

\* the checks of handleAddAccount: 0 when the account is accepted
addStatus(body, accts) ==
  LET name == trim(body.name)
      username == stripAt(trim(body.username))
  IN IF ~body.parses THEN 500
     ELSE IF name = <<>> \/ username = <<>> THEN 400
     ELSE IF ~matchesHandlePattern(username) THEN 400
     ELSE IF \E i \in DOMAIN accts : accts[i].usernameKey = usernameKeyOf(username) THEN 409
     ELSE 0

\* POST /api/accounts: rejected, or the account is pushed and the save begins
AddAccount(body) ==
  /\ phase = "serving"
  /\ (Len(polls) - 1) + Len(adds) < MaxStimuli
  /\ LET status == addStatus(body, accounts)
         accts == IF status = 0
                  THEN Append(accounts,
                         NewAccount(trim(body.name), stripAt(trim(body.username))))
                  ELSE accounts
     IN /\ accounts' = accts
        /\ adds' = Append(adds,
                     [body |-> body, status |-> status,
                      pc |-> IF status = 0 THEN "saving" ELSE "done",
                      acct |-> IF status = 0 THEN Len(accts) ELSE 0,
                      writing |-> serializable(accts)])
        /\ hist' = IF status = 0 THEN Append(hist, <<>>) ELSE hist
  /\ UNCHANGED <<phase, file, token, clients, lastPollCompletedAt, now,
                 tasks, polls, events>>

\* saveAccounts has written the file: the new account's refresh begins
SaveOk(r) ==
  /\ r \in DOMAIN adds
  /\ adds[r].pc = "saving"
  /\ file' = FileOf(adds[r].writing)
  /\ now' = now
  /\ LET i == adds[r].acct
         accts == [accounts EXCEPT ![i] = Begun(@)]
         started == IF token THEN {Task(i, AddReq(r), accounts[i])} ELSE {}
     IN /\ accounts' = accts
        /\ tasks' = tasks \cup started
        /\ IF token
           THEN /\ hist' = hist
                /\ events' = events
                /\ adds' = [adds EXCEPT ![r].pc = "refreshing"]
                /\ UNCHANGED <<lastPollCompletedAt, phase>>
           ELSE /\ hist' = [hist EXCEPT ![i] =
                             Append(@, Settled(AddReq(r), "notoken", accts[i], NoResponse))]
                /\ Continue(AddReq(r), accts, tasks, events)
  /\ UNCHANGED <<token, clients, polls>>

\* saveAccounts throws: the catch block answers 500
SaveFail(r) ==
  /\ r \in DOMAIN adds
  /\ adds[r].pc = "saving"
  /\ adds' = [adds EXCEPT ![r].status = 500, ![r].pc = "done"]
  /\ UNCHANGED <<phase, file, token, accounts, clients, lastPollCompletedAt, now,
                 tasks, polls, events, hist>>

\* the process before start() has run
Booting ==
  /\ phase = "boot"
  /\ accounts = <<>>
  /\ clients = {}
  /\ lastPollCompletedAt = <<>>
  /\ now = 1
  /\ tasks = {}
  /\ polls = <<>>
  /\ adds = <<>>
  /\ events = <<>>
  /\ hist = <<>>
  /\ conns = <<>>

\* GET /events: the response joins the set and is sent the `connected` event
Connect ==
  /\ phase = "serving"
  /\ Len(conns) < MaxClients
  /\ clients' = clients \cup {Len(conns) + 1}
  /\ conns' = Append(conns,
                [got |-> << Frame("connected", [connectedAt |-> Iso(now)]) >>,
                 from |-> Len(events), closed |-> FALSE, till |-> 0])
  /\ UNCHANGED <<phase, file, token, accounts, lastPollCompletedAt, now,
                 tasks, polls, adds, events, hist>>

\* the `close` event of a connection: the response leaves the set
Disconnect(c) ==
  /\ c \in clients
  /\ clients' = clients \ {c}
  /\ conns' = [conns EXCEPT ![c].closed = TRUE, ![c].till = Len(events)]
  /\ UNCHANGED <<phase, file, token, accounts, lastPollCompletedAt, now,
                 tasks, polls, adds, events, hist>>

\* a loop of broadcastEvent over every response ever connected
writeToEveryConnection ==
  conns' = [c \in DOMAIN conns |->
              [conns[c] EXCEPT !.got = @ \o
                 [k \in 1..(Len(events') - Len(events)) |->
                    Frame(events'[Len(events) + k].type,
                          events'[Len(events) + k].payload)]]]

\* the loop of broadcastEvent: each call of the step is written to the
\* responses in the set
writeToClients ==
  conns' = [c \in DOMAIN conns |->
              IF c \in clients
              THEN [conns[c] EXCEPT !.got = @ \o
                      [k \in 1..(Len(events') - Len(events)) |->
                         Frame(events'[Len(events) + k].type,
                               events'[Len(events) + k].payload)]]
              ELSE conns[c]]

\* the state the server process does not touch
ServerOnly == UNCHANGED <<faulty, userIdCache, requests, post, normalized>>

\* the serverless handler and the normalizer under test, not in use
Elsewhere ==
  /\ userIdCache = <<>>
  /\ requests = <<>>
  /\ post = <<>>
  /\ normalized = <<>>

Init ==
  /\ Booting
  /\ file \in StartFiles \cup {NoFile}
  /\ token \in BOOLEAN
  /\ file = NoFile => ~token   \* the three starter accounts are polled without a token only
  /\ faulty = {}
  /\ Elsewhere

Next ==
  \/ Start /\ writeToClients /\ ServerOnly
  \/ Tick /\ writeToClients /\ ServerOnly
  \/ \E t \in tasks : \E id \in UserIds : ResolveOk(t, id) /\ writeToClients /\ ServerOnly
  \/ \E t \in tasks : \E msg \in ResolveErrors : RefreshFail(t, msg) /\ writeToClients /\ ServerOnly
  \/ \E t \in tasks : \E resp \in FetchResponses : FetchOk(t, resp) /\ writeToClients /\ ServerOnly
  \/ \E body \in AddBodies : AddAccount(body) /\ writeToClients /\ ServerOnly
  \/ \E r \in DOMAIN adds : SaveOk(r) /\ writeToClients /\ ServerOnly
  \/ \E r \in DOMAIN adds : SaveFail(r) /\ writeToClients /\ ServerOnly

Spec == Init /\ [][Next]_vars

\* a remote request that is in flight is answered
Respond ==
  \E t \in tasks :
    \/ \E id \in UserIds : ResolveOk(t, id) /\ writeToClients /\ ServerOnly
    \/ \E msg \in ResolveErrors : RefreshFail(t, msg) /\ writeToClients /\ ServerOnly
    \/ \E resp \in FetchResponses : FetchOk(t, resp) /\ writeToClients /\ ServerOnly

\* the server when every remote request eventually returns
SpecLive == Init /\ [][Next]_vars /\ WF_vars(Respond)

\* the server when the `state` broadcast of some pollAccounts calls of the
\* timer throws (a throw in the startup call ends the process instead)
InitFault ==
  /\ Booting
  /\ file = FileOf(<<Saved(cA, uFo), Saved(cB, uFO)>>)
  /\ token = TRUE
  /\ faulty \in (SUBSET (2..(MaxStimuli + 1))) \ {{}}
  /\ Elsewhere

SpecFault == InitFault /\ [][Next]_vars

\* the server with one account whose remote feed may be longer than a page,
\* and whose remote may or may not apply max_results to it
InitPage ==
  /\ Booting
  /\ file = FileOf(<<Saved(cA, uFo), Saved(cB, uFO)>>)
  /\ token = TRUE
  /\ faulty = {}
  /\ Elsewhere

NextPage ==
  \/ Next
  \/ \E t \in tasks : FetchOk(t, Feed(LongFeed)) /\ writeToClients /\ ServerOnly
  \/ \E t \in tasks : FetchOk(t, Unpaged(LongFeed)) /\ writeToClients /\ ServerOnly

SpecPage == InitPage /\ [][NextPage]_vars

\* the response to a tweets request may come from any moment between the call
\* and the answer; a feed that only moves forward shows, to a request called
\* after an earlier answer of the same account arrived, no less than that
\* answer showed
MovesForward(t, resp) ==
  \A j \in 1..t.h0 :
    hist[t.acct][j].result = "ok" => Len(hist[t.acct][j].resp.data) <= Len(resp.data)

\* the server against a remote whose feeds only move forward
InitForward ==
  /\ Booting
  /\ file \in { FileOf(<<>>), FileOf(<<Saved(cA, uFo), Saved(cB, uFO)>>) }
  /\ token = TRUE
  /\ faulty = {}
  /\ Elsewhere

NextForward ==
  \/ Start /\ writeToClients /\ ServerOnly
  \/ Tick /\ writeToClients /\ ServerOnly
  \/ \E t \in tasks : \E id \in UserIds : ResolveOk(t, id) /\ writeToClients /\ ServerOnly
  \/ \E t \in tasks : \E msg \in ResolveErrors : RefreshFail(t, msg) /\ writeToClients /\ ServerOnly
  \/ \E t \in tasks : \E resp \in FetchResponses :
       MovesForward(t, resp) /\ FetchOk(t, resp) /\ writeToClients /\ ServerOnly
  \/ \E body \in AddBodies : AddAccount(body) /\ writeToClients /\ ServerOnly
  \/ \E r \in DOMAIN adds : SaveOk(r) /\ writeToClients /\ ServerOnly
  \/ \E r \in DOMAIN adds : SaveFail(r) /\ writeToClients /\ ServerOnly

SpecForward == InitForward /\ [][NextForward]_vars

\* the server with its event stream in use: an empty accounts.json, a token,
\* and browsers that connect to GET /events and go away
InitSse ==
  /\ Booting
  /\ file = FileOf(<<>>)
  /\ token = TRUE
  /\ faulty \in {{}, {2}}
  /\ Elsewhere

NextSse ==
  \/ Next
  \/ Connect /\ ServerOnly
  \/ \E c \in clients : Disconnect(c) /\ ServerOnly

SpecSse == InitSse /\ [][NextSse]_vars

----------------------------------------------------------------------------
(* api/state.mjs: the serverless handler of GET /api/state.  It reads the    *)
(* same accounts.json, keeps no registry, and shares userIdCache between its *)
(* invocations in one process.                                               *)

\* stands for the message of buildState when the token is missing
ApiNoTokenMsg == "X_BEARER_TOKEN is not set."

\* the output object of buildState for one account
Output(account) ==
  [ name                 |-> account.name,
    username             |-> account.username,
    recentTweets         |-> <<>>,
    latestTweetId        |-> "",
    latestTweetText      |-> "",
    latestTweetCreatedAt |-> "",
    latestTweetUrl       |-> <<>>,
    error                |-> "",
    lastCheckedAt        |-> Iso(now) ]

\* userIdCache.set(cacheKey, userId)
cacheSet(cache, cacheKey, userId) ==
  [k \in DOMAIN cache \cup {cacheKey} |-> IF k = cacheKey THEN userId ELSE cache[k]]

\* resolveUserId(username) up to its await: a cache hit returns the id and the
\* tweets are requested, a miss requests the lookup
resolveBegin(username) ==
  IF toLowerCase(username) \in DOMAIN userIdCache
  THEN [pc |-> "fetch", hit |-> TRUE, userId |-> userIdCache[toLowerCase(username)]]
  ELSE [pc |-> "lookup", hit |-> FALSE, userId |-> ""]

\* one callback of accounts.map in buildState, up to its first await
Call(account) ==
  IF ~token
  THEN [pc |-> "done", hit |-> FALSE, userId |-> "",
        output |-> [Output(account) EXCEPT !.error = ApiNoTokenMsg]]
  ELSE LET b == resolveBegin(account.username)
       IN [pc |-> b.pc, hit |-> b.hit, userId |-> b.userId, output |-> Output(account)]

\* the response of the handler once Promise.all has every output: 0 before
answered(calls) ==
  IF \A i \in DOMAIN calls : calls[i].pc = "done" THEN 200 ELSE 0

\* handler(req, res) for a GET: loadAccounts, then every account's callback
\* runs up to its first await; a missing file is answered 500
ApiRequest(f) ==
  /\ Len(requests) < MaxRequests
  /\ requests' = Append(requests,
       IF ~f.exists
       THEN [calls |-> <<>>, status |-> 500]
       ELSE LET accts == loadAccounts(f.entries)
                calls == [i \in 1..Len(accts) |-> Call(accts[i])]
            IN [calls |-> calls, status |-> answered(calls)])
  /\ UNCHANGED userIdCache

\* the lookup answers with an id: it is cached, and the tweets are requested
ApiLookupOk(r, i, id) ==
  /\ r \in DOMAIN requests
  /\ i \in DOMAIN requests[r].calls
  /\ requests[r].calls[i].pc = "lookup"
  /\ userIdCache' = cacheSet(userIdCache,
                             toLowerCase(requests[r].calls[i].output.username), id)
  /\ requests' = [requests EXCEPT ![r].calls[i].pc = "fetch",
                                  ![r].calls[i].userId = id]

\* a request of the callback fails, or the lookup carries no id: the catch
\* block of buildState stores the message
ApiCallFail(r, i, msg) ==
  /\ r \in DOMAIN requests
  /\ i \in DOMAIN requests[r].calls
  /\ \/ requests[r].calls[i].pc = "lookup"
     \/ requests[r].calls[i].pc = "fetch" /\ msg = ApiErrorMsg
  /\ LET calls == [requests[r].calls EXCEPT ![i].pc = "done",
                                            ![i].output.error = msg]
     IN requests' = [requests EXCEPT ![r].calls = calls,
                                     ![r].status = answered(calls)]
  /\ UNCHANGED userIdCache

\* the tweets request answers: the output is filled in
ApiFetchOk(r, i, resp) ==
  /\ r \in DOMAIN requests
  /\ i \in DOMAIN requests[r].calls
  /\ requests[r].calls[i].pc = "fetch"
  /\ LET recentTweets == normalize(requests[r].calls[i].output.username, resp)
         calls == [requests[r].calls EXCEPT
                     ![i].pc = "done",
                     ![i].output.recentTweets = recentTweets,
                     ![i].output.latestTweetId = newestId(recentTweets),
                     ![i].output.latestTweetText =
                        IF recentTweets = <<>> THEN "" ELSE recentTweets[1].text,
                     ![i].output.latestTweetCreatedAt =
                        IF recentTweets = <<>> THEN "" ELSE recentTweets[1].createdAt,
                     ![i].output.latestTweetUrl =
                        IF recentTweets = <<>> THEN <<>> ELSE recentTweets[1].url]
     IN requests' = [requests EXCEPT ![r].calls = calls,
                                     ![r].status = answered(calls)]
  /\ UNCHANGED userIdCache

\* the state the serverless handler does not touch
ApiOnly ==
  UNCHANGED <<phase, file, token, accounts, clients, lastPollCompletedAt, now,
              tasks, polls, adds, events, hist, conns, faulty, post, normalized>>

\* accounts.json as deployed with the handler: one account after the loader
\* has dropped the second entry, or no file
ApiFiles ==
  { FileOf(<<Saved(cB, uFO), Saved(cA, uFo)>>),
    NoFile }

InitApi ==
  /\ Booting
  /\ file \in ApiFiles
  /\ token \in BOOLEAN
  /\ faulty = {}
  /\ Elsewhere

NextApi ==
  \/ ApiRequest(file) /\ ApiOnly
  \/ \E r \in DOMAIN requests : \E i \in DOMAIN requests[r].calls : \E id \in UserIds :
       ApiLookupOk(r, i, id) /\ ApiOnly
  \/ \E r \in DOMAIN requests : \E i \in DOMAIN requests[r].calls : \E msg \in ResolveErrors :
       ApiCallFail(r, i, msg) /\ ApiOnly
  \/ \E r \in DOMAIN requests : \E i \in DOMAIN requests[r].calls : \E resp \in FetchResponses :
       ApiFetchOk(r, i, resp) /\ ApiOnly

SpecApi == InitApi /\ [][NextApi]_vars

\* both programs without X_BEARER_TOKEN: the server and its timer, and the
\* serverless handler reading the same accounts.json; no remote request is in
\* flight, so none is answered
InitNoToken ==
  /\ Booting
  /\ file \in StartFiles \cup {NoFile}
  /\ token = FALSE
  /\ faulty = {}
  /\ Elsewhere

NextNoToken ==
  \/ Start /\ writeToClients /\ ServerOnly
  \/ Tick /\ writeToClients /\ ServerOnly
  \/ \E body \in AddBodies : AddAccount(body) /\ writeToClients /\ ServerOnly
  \/ \E r \in DOMAIN adds : SaveOk(r) /\ writeToClients /\ ServerOnly
  \/ \E r \in DOMAIN adds : SaveFail(r) /\ writeToClients /\ ServerOnly
  \/ ApiRequest(file) /\ ApiOnly

SpecNoToken == InitNoToken /\ [][NextNoToken]_vars

----------------------------------------------------------------------------
(* serializeTweet applied to one raw tweet (server.mjs 239-265 and            *)
(* api/state.mjs 73-98 are the same function).                               *)

\* sequences over S of length at most n
SeqsUpTo(S, n) == UNION { [1..k -> S] : k \in 0..n }

\* includes.media of the response: a photo, a video without url but with a
\* preview and variants, a photo without url, a gif with a url only; and the
\* same with the video lacking its preview
VideoVariants ==
  << Variant("application/x-mpegURL", 0, <<"https://v/pl.m3u8">>),
     Variant("video/mp4", 256, <<"https://v/low.mp4">>),
     Variant("video/mp4", 832, <<"https://v/high.mp4">>) >>

IncludedMedia ==
  { << RawMedia("p", "photo", <<"https://img/p.jpg">>, <<>>, <<>>),
       RawMedia("v", "video", <<>>, <<"https://img/v.jpg">>, VideoVariants),
       RawMedia("n", "photo", <<>>, <<"https://img/n.jpg">>, <<>>),
       RawMedia("g", "animated_gif", <<"https://img/g.gif">>, <<>>, <<>>) >>,
    << RawMedia("p", "photo", <<"https://img/p.jpg">>, <<>>, <<>>),
       RawMedia("v", "video", <<>>, <<>>, VideoVariants),
       RawMedia("p", "photo", <<>>, <<>>, <<>>) >> }

\* attachments.media_keys: "x" is in no includes.media
MediaKeys == {"p", "v", "n", "x"}

\* entities.urls: expanded_url and url of a link
LinkEntities ==
  { UrlEntity(<<"h","/","a",".","p","n","g">>, <<"t","/","1">>),
    UrlEntity(<<"h","/","b",".","J","P","G","?","w","=","1">>, <<"t","/","2">>),
    UrlEntity(<<>>, <<"t","/","c",".","j","p","e","g">>),
    UrlEntity(<<"h","/","d",".","p","n","g","x">>, <<"t","/","4",".","g","i","f">>),
    UrlEntity(<<"h","/","e",".","w","e","b","p","#","f">>, <<"t","/","5">>),
    UrlEntity(<<"h","/","f","?","u","=","g",".","g","i","f">>, <<"t","/","6">>),
    UrlEntity(<<"h","/","i","n","d","e","x">>, <<>>) }

\* the raw tweets and media lists serializeTweet is applied to
Posts ==
  { [tweet |-> RawTweet("100", "text", "2024-01-01T00:00:00.000Z", keys, urls),
     media |-> media] :
      keys \in SeqsUpTo(MediaKeys, MaxAttachments),
      urls \in SeqsUpTo(LinkEntities, MaxAttachments),
      media \in IncludedMedia }

\* serializeTweet is called on the post
Serialize ==
  /\ post # <<>>
  /\ normalized = <<>>
  /\ normalized' = << serializeTweet(uFo, post[1].tweet, post[1].media) >>
  /\ UNCHANGED <<phase, file, token, accounts, clients, lastPollCompletedAt, now,
                 tasks, polls, adds, events, hist, conns, faulty,
                 userIdCache, requests, post>>

InitNorm ==
  /\ Booting
  /\ file = FileOf(<<>>)
  /\ token = FALSE
  /\ faulty = {}
  /\ userIdCache = <<>>
  /\ requests = <<>>
  /\ post \in { <<p>> : p \in Posts }
  /\ normalized = <<>>

NextNorm == Serialize

SpecNorm == InitNorm /\ [][NextNorm]_vars

\* the variants of a raw media object: the i-th has its own url, or none; a
\* bitrate of 0 stands for a missing one
VariantChoices(i) ==
  { Variant(ct, br, u) :
      ct \in {"video/mp4", "video/MP4", "application/x-mpegURL"},
      br \in {0, 256, 832},
      u \in {<<>>, <<"https://v/", TweetIdStrings[i]>>} }

VariantLists ==
  UNION { { vs \in [1..k -> UNION { VariantChoices(i) : i \in 1..k }] :
              \A i \in 1..k : vs[i] \in VariantChoices(i) } : k \in 0..MaxVariants }

\* the raw media objects serializeTweetMedia is applied to
MediaInputs ==
  { RawMedia("m", type, url, preview, variants) :
      type \in {"photo", "video", "animated_gif"},
      url \in {<<>>, <<"https://img/direct">>},
      preview \in {<<>>, <<"https://img/preview">>},
      variants \in VariantLists }

\* pickBestVideoVariant and serializeTweetMedia are called on the media object
SerializeMedia ==
  /\ post # <<>>
  /\ normalized = <<>>
  /\ normalized' = << [videoUrl |-> pickBestVideoVariant(post[1].variants),
                       entry |-> serializeTweetMedia(<<post[1]>>)] >>
  /\ UNCHANGED <<phase, file, token, accounts, clients, lastPollCompletedAt, now,
                 tasks, polls, adds, events, hist, conns, faulty,
                 userIdCache, requests, post>>

InitVideo ==
  /\ Booting
  /\ file = FileOf(<<>>)
  /\ token = FALSE
  /\ faulty = {}
  /\ userIdCache = <<>>
  /\ requests = <<>>
  /\ post \in { <<m>> : m \in MediaInputs }
  /\ normalized = <<>>

NextVideo == SerializeMedia

SpecVideo == InitVideo /\ [][NextVideo]_vars

----------------------------------------------------------------------------
(* Vocabulary of the properties.                                           *)

\* the broadcastEvent calls of the current step
NewEvents == SubSeq(events', Len(events) + 1, Len(events'))

\* the number of settled refreshes of account i
SettledCount(h, i) == IF i \in DOMAIN h THEN Len(h[i]) ELSE 0

\* account i has a refresh that settles in the current step
SettlesNow(i) == i \in DOMAIN hist' /\ SettledCount(hist', i) > SettledCount(hist, i)

\* the record of the refresh of account i that settles in the current step
SettlingRecord(i) == hist'[i][Len(hist'[i])]

\* the positions of the new_post events of account i
NewPostsOf(i) ==
  { k \in DOMAIN events : events[k].type = "new_post" /\ events[k].acct = i }

\* the positions of the new_post events of account i sent by the refresh `owner` called
NewPostsBy(i, owner) == { k \in NewPostsOf(i) : events[k].src = owner }

----------------------------------------------------------------------------
\* C1: the first refresh of an account that completes sends no new_post; when
\* the first completed refresh yields newest id X and the next one a different
\* newest id Y, these two refreshes send exactly one new_post, it is sent by the
\* second and carries latestTweetId = Y, and it is the only new_post of the
\* account so far.
FirstRefreshNeverNotifies ==
  \A i \in DOMAIN hist :
    /\ hist[i] # <<>> => NewPostsBy(i, hist[i][1].owner) = {}
    /\ ( /\ Len(hist[i]) >= 2
         /\ hist[i][1].result = "ok" /\ hist[i][1].newest # ""
         /\ hist[i][2].result = "ok" /\ hist[i][2].newest # ""
         /\ hist[i][2].newest # hist[i][1].newest )
       => /\ Cardinality(NewPostsBy(i, hist[i][2].owner)) = 1
          /\ \A k \in NewPostsBy(i, hist[i][2].owner) :
               events[k].payload.account.latestTweetId = hist[i][2].newest
          /\ Len(hist[i]) = 2 => Cardinality(NewPostsOf(i)) = 1

\* an account whose first completed refresh yielded "100" and whose second yielded "101"
FirstThenSecondRefresh ==
  \E i \in DOMAIN hist :
    /\ Len(hist[i]) = 2
    /\ hist[i][1].result = "ok" /\ hist[i][1].newest = "100"
    /\ hist[i][2].result = "ok" /\ hist[i][2].newest = "101"
    /\ Cardinality(NewPostsOf(i)) = 1

\* C2: a refresh sends new_post exactly when the account was initialized and had
\* a non-empty latestTweetId as the fetch returned, the fetch succeeded with at
\* least one item, and the newest item's id differs from that latestTweetId; it
\* sends at most one, whose payload is the account after the update; and
\* new_post is sent by nothing but a settling refresh.
NotifyExactlyOnChange ==
  [][ /\ \A i \in DOMAIN accounts' :
           LET sent == { k \in DOMAIN NewEvents :
                           NewEvents[k].type = "new_post" /\ NewEvents[k].acct = i }
               due == /\ SettlesNow(i)
                      /\ i \in DOMAIN accounts
                      /\ accounts[i].initialized
                      /\ accounts[i].latestTweetId # ""
                      /\ SettlingRecord(i).result = "ok"
                      /\ accounts'[i].recentTweets # <<>>
                      /\ accounts'[i].recentTweets[1].id # accounts[i].latestTweetId
           IN /\ Cardinality(sent) = IF due THEN 1 ELSE 0
              /\ \A k \in sent :
                   /\ NewEvents[k].payload.account = serializeAccount(accounts'[i])
                   /\ NewEvents[k].payload.account.latestTweetId = accounts'[i].recentTweets[1].id
                   /\ NewEvents[k].src = SettlingRecord(i).owner
      /\ \A k \in DOMAIN NewEvents :
           NewEvents[k].type = "new_post" => NewEvents[k].acct \in DOMAIN accounts'
    ]_vars

\* an account whose fetches returned no item, then an item (no new_post), then
\* a newer item (a new_post)
NotifiedAndNot ==
  \E i \in DOMAIN hist :
    /\ Len(hist[i]) >= 3
    /\ hist[i][1].result = "ok" /\ hist[i][1].newest = ""
    /\ hist[i][2].result = "ok" /\ hist[i][2].newest # ""
    /\ NewPostsBy(i, hist[i][2].owner) = {}
    /\ hist[i][3].result = "ok" /\ hist[i][3].newest # hist[i][2].newest
    /\ NewPostsBy(i, hist[i][3].owner) # {}

\* C3: the refreshes of one pollAccounts call send at most one new_post per account.
AtMostOneNewPostPerCycle ==
  \A n \in DOMAIN polls : \A i \in DOMAIN accounts :
    Cardinality(NewPostsBy(i, Cycle(n))) <= 1

\* a poll cycle whose refresh of an account sent a new_post
CycleSentNewPost ==
  \E n \in DOMAIN polls : \E i \in DOMAIN accounts : NewPostsBy(i, Cycle(n)) # {}

\* C4: a refresh that fails (at the lookup or at the fetch) leaves the account's
\* error non-empty, does not change its content fields and sends no new_post;
\* unless another refresh of the same account succeeded while it was in flight,
\* the content fields are those the account had when the refresh began; and the
\* content fields change in no step but the success of a fetch.
FailureKeepsContent ==
  [][ /\ \A i \in DOMAIN accounts :
           (SettlesNow(i) /\ SettlingRecord(i).result = "fail")
           => /\ accounts'[i].error # ""
              /\ Content(accounts'[i]) = Content(accounts[i])
              /\ \A k \in DOMAIN NewEvents : NewEvents[k].type # "new_post"
              /\ \A t \in tasks \ tasks' :
                   ( /\ t.acct = i
                     /\ \A j \in (t.h0 + 1)..Len(hist[i]) : hist[i][j].result # "ok" )
                   => Content(accounts'[i]) = t.before
      /\ \A i \in DOMAIN accounts :
           Content(accounts'[i]) # Content(accounts[i])
           => SettlesNow(i) /\ SettlingRecord(i).result = "ok"
    ]_vars

\* an account that holds tweets and whose latest refresh failed
FailedWithStaleContent ==
  \E i \in DOMAIN accounts :
    /\ accounts[i].recentTweets # <<>>
    /\ accounts[i].error # ""
    /\ hist[i][Len(hist[i])].result = "fail"

\* the positions of the `state` events the n-th pollAccounts call sent
StateEventsOf(n) ==
  { k \in DOMAIN events : events[k].type = "state" /\ events[k].src = Cycle(n) }

\* the record of the refresh of account i called by `owner`, as a set
RecordsBy(i, owner) == { j \in DOMAIN hist[i] : hist[i][j].owner = owner }

\* the content fields of a serialized account
PayloadContent(p) ==
  <<p.recentTweets, p.latestTweetId, p.latestTweetText,
    p.latestTweetCreatedAt, p.latestTweetUrl>>

\* the n-th pollAccounts call sent its `state` event at most once, after all
\* its refreshes settled and after its new_post events
CycleStateEventOnceAfterJoin ==
  \A n \in DOMAIN polls :
    /\ Cardinality(StateEventsOf(n)) <= 1
    /\ (StateEventsOf(n) = {}) = (\E t \in tasks : t.owner = Cycle(n))
    /\ \A k \in StateEventsOf(n) :
         /\ \A i \in 1..polls[n] : RecordsBy(i, Cycle(n)) # {}
         /\ \A j \in DOMAIN events :
              (events[j].type = "new_post" /\ events[j].src = Cycle(n)) => j < k

\* the `state` payload of a poll cycle lists the whole registry as it is
CycleStatePayloadIsRegistry ==
  [][ \A k \in DOMAIN NewEvents :
        (NewEvents[k].type = "state" /\ NewEvents[k].src.kind = "cycle")
        => NewEvents[k].payload.accounts =
             [i \in 1..Len(accounts') |-> serializeAccount(accounts'[i])]
    ]_vars

\* in the `state` payload of a poll cycle, an account whose refresh of that
\* cycle failed shows an error and the content it had at the failure, and an
\* account whose refresh succeeded shows the content that refresh stored
CycleStateShowsOutcomes ==
  \A n \in DOMAIN polls : \A k \in StateEventsOf(n) : \A i \in 1..polls[n] :
    \A j \in RecordsBy(i, Cycle(n)) :
      /\ PayloadContent(events[k].payload.accounts[i]) = hist[i][j].content
      /\ hist[i][j].result = "fail" => events[k].payload.accounts[i].error # ""

\* C5: every poll cycle sends its `state` event once, only after every refresh
\* it started has settled and after its new_post events; the payload lists
\* every account of the registry, a failed account with its error and stale
\* content, a succeeded account with its updated content.
CycleStateEvent ==
  /\ []CycleStateEventOnceAfterJoin
  /\ CycleStatePayloadIsRegistry
  /\ []CycleStateShowsOutcomes

\* C6: no `state` event, of the timer path or of the add path, is sent while a
\* refresh of a timer-driven cycle is in flight.
NoStateEventMidCycle ==
  [][ \A k \in DOMAIN NewEvents :
        NewEvents[k].type = "state"
        => ~ \E t \in tasks' : t.owner.kind = "cycle"
    ]_vars

\* C7: at most one timer-driven cycle is in flight, and at most one
\* timer-driven refresh of any account.
CyclesNeverOverlap ==
  \A t1, t2 \in tasks :
    (t1.owner.kind = "cycle" /\ t2.owner.kind = "cycle") => t1.owner = t2.owner

\* the entries of the file loadAccounts accepts, and the username it derives
Accepted(entries, j) ==
  /\ entries[j].isObject
  /\ entries[j].name.isString
  /\ entries[j].username.isString
  /\ stripAt(trim(entries[j].username.v)) # <<>>

DerivedUsername(entries, j) == stripAt(trim(entries[j].username.v))

\* C8: no two accounts of the registry have the same lowercase username, after
\* the load of the file (which keeps, in file order, the first accepted entry of
\* each lowercase username) and after any interleaving of add requests, saves
\* and poll cycles.
UniqueLowercaseUsernames ==
  /\ \A i, j \in DOMAIN accounts :
       i # j => toLowerCase(accounts[i].username) # toLowerCase(accounts[j].username)
  /\ (phase # "boot" /\ adds = <<>>) =>
       /\ \A j \in DOMAIN file.entries :
            Accepted(file.entries, j) =>
              \E i \in DOMAIN accounts :
                toLowerCase(accounts[i].username)
                  = toLowerCase(DerivedUsername(file.entries, j))
       /\ \A i \in DOMAIN accounts :
            \E j \in DOMAIN file.entries :
              /\ Accepted(file.entries, j)
              /\ accounts[i].username = DerivedUsername(file.entries, j)
              /\ \A k \in 1..(j - 1) :
                   Accepted(file.entries, k) =>
                     toLowerCase(DerivedUsername(file.entries, k))
                       # toLowerCase(accounts[i].username)
       /\ \A i1, i2 \in DOMAIN accounts :
            i1 < i2 =>
              \E j1, j2 \in DOMAIN file.entries :
                /\ j1 < j2
                /\ Accepted(file.entries, j1) /\ Accepted(file.entries, j2)
                /\ accounts[i1].username = DerivedUsername(file.entries, j1)
                /\ accounts[i2].username = DerivedUsername(file.entries, j2)

\* the file held the same handle twice in different case, and of two add
\* requests for one new handle in different case the second met the first
\* while its save was under way
DuplicatesMet ==
  /\ Len(accounts) = 2
  /\ accounts[1].username = uFo
  /\ Len(adds) = 2
  /\ adds[1].pc = "saving"
  /\ adds[2].status = 409
  /\ adds[2].body.username # adds[1].body.username

\* C9: for every account latestTweetId is empty or the id of recentTweets[0],
\* and it is empty whenever recentTweets is empty.
LatestIdIsNewest ==
  \A i \in DOMAIN accounts :
    /\ accounts[i].latestTweetId = ""
         \/ ( /\ accounts[i].recentTweets # <<>>
              /\ accounts[i].latestTweetId = accounts[i].recentTweets[1].id )
    /\ accounts[i].recentTweets = <<>> => accounts[i].latestTweetId = ""

\* an account whose fetch returned tweets and whose next fetch returned none,
\* beside another account whose refresh is in flight
EmptiedAfterTweets ==
  \E i \in DOMAIN accounts :
    /\ \E j \in 2..Len(hist[i]) :
         /\ hist[i][j - 1].newest # ""
         /\ hist[i][j].result = "ok" /\ hist[i][j].newest = ""
    /\ accounts[i].recentTweets = <<>>
    /\ \E t \in tasks : t.acct # i

\* the checks of the add request, stated on the request and the registry
BodyInvalid(body) ==
  \/ trim(body.name) = <<>>
  \/ stripAt(trim(body.username)) = <<>>
  \/ Len(stripAt(trim(body.username))) > MaxHandleLen
  \/ \E c \in Range(stripAt(trim(body.username))) : c \notin HandleChars

BodyDuplicate(body, accts) ==
  \E i \in DOMAIN accts :
    toLowerCase(accts[i].username) = toLowerCase(stripAt(trim(body.username)))

\* C10: an add request whose name or username is empty, or whose username does
\* not match the handle pattern, is answered 400; one whose lowercase username
\* is in the registry is answered 409; an add request answered 400 or 409
\* changes neither the registry nor the file, starts no save and no refresh
\* and broadcasts nothing.
RejectedAddChangesNothing ==
  [][ Len(adds') = Len(adds) + 1 =>
        LET r == adds'[Len(adds')]
        IN /\ (r.body.parses /\ BodyInvalid(r.body)) => r.status = 400
           /\ (r.body.parses /\ ~BodyInvalid(r.body) /\ BodyDuplicate(r.body, accounts))
                => r.status = 409
           /\ r.status = 400 => BodyInvalid(r.body)
           /\ r.status = 409 => BodyDuplicate(r.body, accounts)
           /\ r.status \in {400, 409} =>
                /\ r.pc = "done"
                /\ accounts' = accounts
                /\ file' = file
                /\ tasks' = tasks
                /\ events' = events
    ]_vars

\* an add request answered 409 for a handle of the registry in another letter
\* case, after one answered 400
RejectedTwice ==
  /\ Len(adds) = 2
  /\ adds[1].status = 400
  /\ adds[2].status = 409
  /\ \A i \in DOMAIN accounts :
       accounts[i].username # stripAt(trim(adds[2].body.username))

----------------------------------------------------------------------------
\* the content fields of an account that was never refreshed
EmptyContent == <<<<>>, "", "", "", <<>>>>

\* the positions of the `state` events the r-th add request sent
StateEventsOfAdd(r) ==
  { k \in DOMAIN events : events[k].type = "state" /\ events[k].src = AddReq(r) }

\* the pairs <<account, position>> of the refreshes the r-th add request called
RecordsOfAdd(r) ==
  { ij \in { <<i, j>> : i \in DOMAIN hist, j \in 1..MaxStimuli + 1 } :
      ij[2] \in DOMAIN hist[ij[1]] /\ hist[ij[1]][ij[2]].owner = AddReq(r) }

\* the step in which an add request is accepted appends one uninitialized
\* account without content to the end of the registry and starts the save of
\* the list; it answers nothing, broadcasts nothing and starts no refresh
AddAppendsOne ==
  [][ (Len(adds') = Len(adds) + 1 /\ adds'[Len(adds')].status = 0) =>
        LET r == adds'[Len(adds')]
            a == accounts'[Len(accounts')]
        IN /\ Len(accounts') = Len(accounts) + 1
           /\ SubSeq(accounts', 1, Len(accounts)) = accounts
           /\ r.acct = Len(accounts')
           /\ a.name = trim(r.body.name)
           /\ a.username = stripAt(trim(r.body.username))
           /\ a.initialized = FALSE
           /\ a.userId = ""
           /\ a.error = ""
           /\ Content(a) = EmptyContent
           /\ r.pc = "saving"
           /\ Len(r.writing) = Len(accounts')
           /\ r.writing[r.acct] = Saved(a.name, a.username)
           /\ events' = events
           /\ tasks' = tasks
           /\ file' = file
    ]_vars

\* the step in which the save of an add request returns writes the list with
\* the new account to the file, and only then the refresh of the new account
\* begins
AddPersistsThenRefreshes ==
  [][ \A r \in DOMAIN adds :
        (adds[r].pc = "saving" /\ adds'[r].pc # "saving" /\ adds'[r].status # 500) =>
          /\ file'.exists
          /\ Len(file'.entries) >= adds[r].acct
          /\ file'.entries[adds[r].acct] =
               Saved(accounts[adds[r].acct].name, accounts[adds[r].acct].username)
          /\ ~ \E t \in tasks : t.owner = AddReq(r)
          /\ RecordsOfAdd(r) = {}
          /\ token => \E t \in tasks' : t.owner = AddReq(r) /\ t.acct = adds[r].acct
          /\ ~token => Cardinality(RecordsOfAdd(r)') = 1
    ]_vars

\* an add request calls the refresh of its new account only, once, after the
\* save; it answers 201 and sends its one `state` event, which shows the new
\* account as the refresh left it, when that refresh has settled and not before
AddAnswersAfterRefresh ==
  \A r \in DOMAIN adds :
    /\ \A t \in tasks : t.owner = AddReq(r) =>
         t.acct = adds[r].acct /\ adds[r].pc = "refreshing"
    /\ Cardinality({ t \in tasks : t.owner = AddReq(r) }) <= 1
    /\ \A ij \in RecordsOfAdd(r) : ij[1] = adds[r].acct
    /\ Cardinality(RecordsOfAdd(r)) = IF adds[r].status = 201 THEN 1 ELSE 0
    /\ Cardinality(StateEventsOfAdd(r)) = IF adds[r].status = 201 THEN 1 ELSE 0
    /\ adds[r].status = 201 => ~ \E t \in tasks : t.owner = AddReq(r)
    /\ \A k \in StateEventsOfAdd(r) : \A ij \in RecordsOfAdd(r) :
         LET p == events[k].payload.accounts
         IN /\ Len(p) >= adds[r].acct
            /\ p[adds[r].acct].username = stripAt(trim(adds[r].body.username))
            /\ PayloadContent(p[adds[r].acct]) = hist[ij[1]][ij[2]].content

\* C11: an accepted add appends exactly one new account with initialized =
\* false and empty content to the end of the registry and persists the list;
\* then it runs the refresh of the new account exactly once, and only when
\* that refresh has settled it answers 201 and sends one `state` event whose
\* payload includes the new account.
AddAppendsSavesRefreshesAnswers ==
  /\ AddAppendsOne
  /\ AddPersistsThenRefreshes
  /\ []AddAnswersAfterRefresh

\* an add request answered 201 after its refresh fetched a tweet, the list
\* with the new account being in the file
AddAnswered201 ==
  \E r \in DOMAIN adds :
    /\ adds[r].status = 201
    /\ \E ij \in RecordsOfAdd(r) :
         hist[ij[1]][ij[2]].result = "ok" /\ hist[ij[1]][ij[2]].newest # ""
    /\ StateEventsOfAdd(r) # {}
    /\ Len(file.entries) >= adds[r].acct

----------------------------------------------------------------------------
\* without a token every refresh that is called settles at once: it sets the
\* configuration message and the check time, and touches neither the userId
\* nor the content of the account; nothing is requested and no new_post sent
RefreshWithoutToken ==
  [][ ~token =>
        /\ tasks' = {}
        /\ Len(polls') > Len(polls) => \A i \in DOMAIN accounts' : SettlesNow(i)
        /\ \A r \in DOMAIN adds :
             (adds[r].pc = "saving" /\ adds'[r].pc = "done" /\ adds'[r].status = 201)
               => SettlesNow(adds[r].acct)
        /\ \A i \in DOMAIN accounts' :
             SettlesNow(i) =>
               /\ SettlingRecord(i).result = "notoken"
               /\ accounts'[i].error = NoTokenMsg
               /\ accounts'[i].error # ""
               /\ accounts'[i].lastCheckedAt = Iso(now')
               /\ accounts'[i].userId = ""
               /\ accounts'[i].initialized = FALSE
               /\ Content(accounts'[i]) =
                    IF i \in DOMAIN accounts THEN Content(accounts[i]) ELSE EmptyContent
        /\ \A k \in DOMAIN NewEvents : NewEvents[k].type # "new_post"
    ]_vars

\* without a token every answer of the serverless handler shows each account
\* with the configuration message and no content; nothing was requested and
\* nothing cached
HandlerWithoutToken ==
  ~token =>
    /\ userIdCache = <<>>
    /\ \A r \in DOMAIN requests :
         /\ requests[r].status \in {200, 500}
         /\ \A i \in DOMAIN requests[r].calls :
              LET c == requests[r].calls[i]
              IN /\ c.pc = "done" /\ ~c.hit /\ c.userId = ""
                 /\ c.output.error = ApiNoTokenMsg
                 /\ c.output.error # ""
                 /\ c.output.lastCheckedAt # <<>>
                 /\ PayloadContent(c.output) = EmptyContent

\* C12: when no token is configured, every refresh of an account issues no
\* remote request (no lookup, no fetch), sets the account's error to a
\* non-empty configuration message, stamps lastCheckedAt, sends no new_post,
\* and leaves userId and the content fields unchanged; the serverless handler
\* answers likewise with the message and without requests.
NoTokenNoRequests ==
  /\ RefreshWithoutToken
  /\ []HandlerWithoutToken

\* without a token: an account refreshed by two poll cycles, an add request
\* answered 201, and an answer of the serverless handler showing an account
NoTokenPolledAddedServed ==
  /\ ~token
  /\ Len(polls) = 2
  /\ \E i \in DOMAIN hist : Len(hist[i]) = 2 /\ accounts[i].error = NoTokenMsg
  /\ \E r \in DOMAIN adds : adds[r].status = 201
  /\ \E r \in DOMAIN requests : requests[r].status = 200 /\ requests[r].calls # <<>>

----------------------------------------------------------------------------
\* C13 as stated: an account one of whose refreshes has completed, with
\* whatever outcome, is initialized.
InitializedAfterFirstAttempt ==
  \A i \in DOMAIN hist : hist[i] # <<>> => accounts[i].initialized

\* an account is initialized exactly when one of its refreshes has succeeded
InitializedIffSucceeded ==
  \A i \in DOMAIN hist :
    accounts[i].initialized = (\E j \in DOMAIN hist[i] : hist[i][j].result = "ok")

\* an initialized account stays initialized
InitializedIsStable ==
  [][ \A i \in DOMAIN accounts : accounts[i].initialized => accounts'[i].initialized ]_vars

\* C13 (amended): an account's initialized flag becomes true when the first of
\* its refreshes that succeeds completes (its fetch returned), it remains false
\* while every completed refresh failed or found no token, and it never
\* returns to false afterwards.
InitializedOnFirstSuccess ==
  /\ []InitializedIffSucceeded
  /\ InitializedIsStable

\* an account whose first refresh failed and left it uninitialized, and whose
\* second refresh succeeded and a third failed
FailedThenSucceededThenFailed ==
  \E i \in DOMAIN hist :
    /\ Len(hist[i]) = 3
    /\ hist[i][1].result = "fail"
    /\ hist[i][2].result = "ok"
    /\ hist[i][3].result = "fail"
    /\ accounts[i].initialized

----------------------------------------------------------------------------
\* the suspended calls whose lookup is answered with an id in the current step
LookupsSucceedingNow ==
  { t \in tasks : /\ t.pc = "resolve"
                  /\ t \notin tasks'
                  /\ [t EXCEPT !.pc = "fetch"] \in tasks' }

\* C14: a lookup succeeds and assigns userId only for an account whose userId
\* is empty (so at most one lookup of an account ever succeeds and assigns), no
\* lookup is issued for an account whose userId is non-empty, and a non-empty
\* userId never changes.
IdentityResolvedAtMostOnce ==
  [][ /\ \A t \in LookupsSucceedingNow : accounts[t.acct].userId = ""
      /\ \A t \in tasks' \ tasks :
           (t.pc = "resolve" /\ [t EXCEPT !.pc = "fetch"] \notin tasks)
             => (t.acct \in DOMAIN accounts => accounts[t.acct].userId = "")
      /\ \A i \in DOMAIN accounts :
           accounts[i].userId # "" => accounts'[i].userId = accounts[i].userId
    ]_vars

----------------------------------------------------------------------------
\* the last broadcastEvent call connection c was in the set for
LastHeard(c) == IF conns[c].closed THEN conns[c].till ELSE Len(events)

\* C15: every broadcastEvent call is written exactly once to every response
\* that is in the set when it is called and to no other: a connection is sent
\* `connected` first, then every event broadcast between its connect and the
\* close that removed it from the set, in order, each once, and nothing that
\* was broadcast before it connected or after it was removed.
SubscribersGetWhatIsBroadcast ==
  /\ clients = { c \in DOMAIN conns : ~conns[c].closed }
  /\ \A c \in DOMAIN conns :
       /\ conns[c].got # <<>>
       /\ conns[c].got[1].type = "connected"
       /\ conns[c].from <= LastHeard(c)
       /\ Tail(conns[c].got) =
            [k \in 1..(LastHeard(c) - conns[c].from) |->
               Frame(events[conns[c].from + k].type, events[conns[c].from + k].payload)]
  /\ \A k \in DOMAIN events :
       events[k].to = { c \in DOMAIN conns : conns[c].from < k /\ k <= LastHeard(c) }

\* a connection that was sent a `state` event and was closed before a new_post
\* was broadcast, and a connection opened after that `state` event that was
\* sent the new_post
ClosedBeforeAndOpenedAfter ==
  \E c, d \in DOMAIN conns :
    /\ conns[c].closed
    /\ Len(conns[c].got) >= 2
    /\ conns[c].till < Len(events)
    /\ conns[d].from > conns[c].from
    /\ conns[d].from > 0
    /\ ~conns[d].closed
    /\ \E k \in DOMAIN conns[d].got : conns[d].got[k].type = "new_post"
    /\ \A k \in DOMAIN conns[c].got : conns[c].got[k].type # "new_post"

----------------------------------------------------------------------------
\* the pollAccounts calls the model can make
Cycles == 1..(MaxStimuli + 1)

\* every pollAccounts call that has started sends its `state` event in the end
EveryCycleCompletes ==
  \A n \in Cycles : (Len(polls) >= n) ~> (StateEventsOf(n) # {})

\* a pollAccounts call that has sent its `state` event has had every refresh
\* it started settle
CompletedCycleSettledAll ==
  \A n \in DOMAIN polls :
    StateEventsOf(n) # {} => \A i \in 1..polls[n] : RecordsBy(i, Cycle(n)) # {}

\* the step in which a refresh fails touches no other account and no other
\* refresh in flight
FailureTouchesNoOther ==
  [][ \A i \in DOMAIN accounts :
        (SettlesNow(i) /\ SettlingRecord(i).result = "fail") =>
          /\ \A j \in DOMAIN accounts : j # i => accounts'[j] = accounts[j]
          /\ \A t \in tasks : t.acct # i => t \in tasks'
    ]_vars

\* C16: when every remote request eventually returns, every poll cycle that
\* starts eventually completes and sends its `state` event, whatever its
\* refreshes' outcomes; a refresh that fails leaves the other refreshes of the
\* cycle in flight and their accounts untouched, and the cycle completes only
\* when each of them has settled.
CyclesCompleteWhateverFails ==
  /\ EveryCycleCompletes
  /\ []CompletedCycleSettledAll
  /\ FailureTouchesNoOther

\* a poll cycle of two accounts, one whose refresh failed and one whose refresh
\* fetched a tweet, that has sent its `state` event
CycleWithFailureAndSuccess ==
  \E n \in DOMAIN polls : \E i, j \in DOMAIN hist :
    /\ polls[n] >= 2 /\ i <= polls[n] /\ j <= polls[n]
    /\ \E k \in RecordsBy(i, Cycle(n)) : hist[i][k].result = "fail"
    /\ \E k \in RecordsBy(j, Cycle(n)) :
         hist[j][k].result = "ok" /\ hist[j][k].newest # ""
    /\ accounts[j].recentTweets # <<>>
    /\ StateEventsOf(n) # {}

----------------------------------------------------------------------------
\* the positions of the `error` events broadcast for the n-th pollAccounts call
ErrorEventsOf(n) ==
  { k \in DOMAIN events : events[k].type = "error" /\ events[k].src = Cycle(n) }

\* the environment of the model has a tick or an add request left to deliver
StimuliLeft == (Len(polls) - 1) + Len(adds) < MaxStimuli

\* C17: once the server is serving, every tick of the timer starts a new poll
\* cycle, whatever happened to the cycles before; for a cycle that throws
\* outside the per-account handling exactly one `error` event is broadcast,
\* when it throws, and no `state` event.
TimerSurvivesErrors ==
  /\ (phase = "serving" /\ StimuliLeft) => ENABLED (Tick /\ writeToClients /\ ServerOnly)
  /\ \A n \in DOMAIN polls :
       /\ n \in faulty =>
            /\ Cardinality(ErrorEventsOf(n)) =
                 IF \E t \in tasks : t.owner = Cycle(n) THEN 0 ELSE 1
            /\ StateEventsOf(n) = {}
       /\ n \notin faulty => ErrorEventsOf(n) = {}

\* a poll cycle that threw and had its `error` event broadcast before the next
\* tick, and the cycle of the next tick, completed
CycleAfterError ==
  \E n \in faulty :
    /\ ErrorEventsOf(n) # {}
    /\ Len(polls) > n
    /\ \A j \in ErrorEventsOf(n) : events[j].payload.occurredAt = Iso(n)
    /\ StateEventsOf(n + 1) # {}

----------------------------------------------------------------------------
ListReplacedByFetch ==
  [][ \A i \in DOMAIN accounts :
        (SettlesNow(i) /\ SettlingRecord(i).result = "ok") =>
          LET list == SettlingRecord(i).resp.data
              media == SettlingRecord(i).resp.media
              got == accounts'[i].recentTweets
          IN /\ Len(got) = Len(list)
             /\ \A k \in DOMAIN list :
                  /\ got[k].id = list[k].id
                  /\ got[k] = serializeTweet(accounts[i].username, list[k], media)
    ]_vars

\* a step that is not a successful refresh of the account leaves its list alone
ListChangedByFetchOnly ==
  [][ \A i \in DOMAIN accounts :
        ~(SettlesNow(i) /\ SettlingRecord(i).result = "ok") =>
          accounts'[i].recentTweets = accounts[i].recentTweets
    ]_vars

\* the responses of the successful refreshes of account i, in order
FetchedBy(i) == SelectSeq(hist[i], LAMBDA r : r.result = "ok")

\* the list of an account is as long as the response of its last successful
\* refresh: at most 5 items when that response held at most 5
AsLongAsLastFetch ==
  \A i \in DOMAIN hist :
    LET f == FetchedBy(i)
        n == IF f = <<>> THEN 0 ELSE Len(f[Len(f)].resp.data)
    IN /\ Len(accounts[i].recentTweets) = n
       /\ n <= MaxResults => Len(accounts[i].recentTweets) <= MaxResults

----------------------------------------------------------------------------
\* the resolveUserId calls so far, as pairs <<request, account>>
ResolveCalls ==
  { rc \in (DOMAIN requests) \X (1..2) : rc[2] \in DOMAIN requests[rc[1]].calls }

\* the cache key of a resolveUserId call
KeyOf(rc) == toLowerCase(requests[rc[1]].calls[rc[2]].output.username)

\* C19: once a resolveUserId call has returned id i, every resolveUserId call
\* made later for the same lowercase username returns i from the cache, with
\* no lookup; a call whose lookup fails throws (the output carries the error)
\* and leaves the cache as it was.
CachedIdentityIsFinal ==
  [][ /\ Len(requests') > Len(requests) =>
           LET new == requests'[Len(requests')]
           IN \A c \in DOMAIN new.calls : \A rc \in ResolveCalls :
                ( /\ KeyOf(rc) = toLowerCase(new.calls[c].output.username)
                  /\ requests[rc[1]].calls[rc[2]].userId # "" )
                  => /\ new.calls[c].hit
                     /\ new.calls[c].pc = "fetch"
                     /\ new.calls[c].userId = requests[rc[1]].calls[rc[2]].userId
      /\ \A rc \in ResolveCalls :
           ( /\ requests[rc[1]].calls[rc[2]].pc = "lookup"
             /\ requests'[rc[1]].calls[rc[2]].pc = "done" )
             => /\ userIdCache' = userIdCache
                /\ requests'[rc[1]].calls[rc[2]].output.error # ""
    ]_vars

----------------------------------------------------------------------------
\* the j-th smallest element of a set of numbers
NthOf(S, j) == CHOOSE k \in S : Cardinality({ m \in S : m < k }) = j - 1

\* the link of an entity: expanded_url, or url when that is empty
LinkOf(item) == IF item.expanded_url # <<>> THEN item.expanded_url ELSE item.url

\* the url is some text ending in .png, .jpg, .jpeg, .gif or .webp in any
\* letter case, followed by nothing or by a query string
EndsInImageExtension(url) ==
  \E n \in 1..Len(url) :
    /\ n = Len(url) \/ url[n + 1] = "?"
    /\ \E ext \in ImageExtensions :
         /\ n > Len(ext)
         /\ url[n - Len(ext)] = "."
         /\ toLowerCase(SubSeq(url, n - Len(ext) + 1, n)) = ext

\* the positions of the media keys of the post that resolve to a usable entry
UsableKeys ==
  LET t == post[1].tweet
  IN { k \in DOMAIN t.media_keys :
         \E i \in DOMAIN post[1].media :
           /\ post[1].media[i].media_key = t.media_keys[k]
           /\ \A j \in DOMAIN post[1].media :
                post[1].media[j].media_key = t.media_keys[k] => j <= i
           /\ displayUrlOf(post[1].media[i]) # <<>> }

\* the positions of the link entities of the post whose link is an image
ImageLinks ==
  LET t == post[1].tweet
  IN { k \in DOMAIN t.urls :
         LinkOf(t.urls[k]) # <<>> /\ EndsInImageExtension(LinkOf(t.urls[k])) }

\* C20: the media list of a normalized post follows one strategy: when at
\* least one media key resolves to a usable entry (non-empty displayUrl) it is
\* exactly the usable structured entries in attachment order, none of them an
\* external_image; otherwise it is exactly one external_image entry, with
\* displayUrl = openUrl = the link, per link entity whose URL ends in an image
\* extension (any letter case, optional query string), in entity order.
OneMediaStrategy ==
  normalized # <<>> =>
    LET t == post[1].tweet
        m == normalized[1].media
    IN IF UsableKeys # {}
       THEN /\ Len(m) = Cardinality(UsableKeys)
            /\ \A j \in DOMAIN m :
                 /\ m[j].type # "external_image"
                 /\ m[j].displayUrl # <<>>
                 /\ << m[j] >> = serializeTweetMedia(
                      mediaByKeyGet(post[1].media, t.media_keys[NthOf(UsableKeys, j)]))
       ELSE /\ Len(m) = Cardinality(ImageLinks)
            /\ \A j \in DOMAIN m :
                 /\ m[j].type = "external_image"
                 /\ m[j].displayUrl = LinkOf(t.urls[NthOf(ImageLinks, j)])
                 /\ m[j].openUrl = m[j].displayUrl

\* a post whose two media keys resolve to nothing usable and whose links are
\* a page and an image with a query string: one external_image
FallbackToLinks ==
  /\ normalized # <<>>
  /\ post[1].tweet.media_keys = <<"n", "x">>
  /\ Len(post[1].tweet.urls) = 2
  /\ LinkOf(post[1].tweet.urls[1]) = <<"h","/","i","n","d","e","x">>
  /\ Len(normalized[1].media) = 1
  /\ normalized[1].media[1].type = "external_image"
  /\ normalized[1].media[1].displayUrl = <<"h","/","b",".","J","P","G","?","w","=","1">>

----------------------------------------------------------------------------
\* the positions of the variants of the media object that are exactly
\* video/mp4 and have a url
Mp4WithUrl ==
  { i \in DOMAIN post[1].variants :
      post[1].variants[i].content_type = "video/mp4" /\ post[1].variants[i].url # <<>> }

\* C21: pickBestVideoVariant returns the url of a variant of the highest
\* bitrate among the variants that are exactly video/mp4 and have a url,
\* whatever the bitrates of the others, and the empty string when there is no
\* such variant; the openUrl of a media entry is the direct url when present,
\* else that video url when present, else the displayUrl.
BestMp4AndOpenUrlPriority ==
  normalized # <<>> =>
    LET m == post[1]
        videoUrl == normalized[1].videoUrl
        entry == normalized[1].entry
    IN /\ Mp4WithUrl = {} => videoUrl = <<>>
       /\ Mp4WithUrl # {} =>
            \E i \in Mp4WithUrl :
              /\ videoUrl = m.variants[i].url
              /\ \A j \in Mp4WithUrl : m.variants[j].bitrate <= m.variants[i].bitrate
       /\ entry # <<>> =>
            /\ entry[1].displayUrl # <<>>
            /\ entry[1].openUrl =
                 IF m.url # <<>> THEN m.url
                 ELSE IF videoUrl # <<>> THEN videoUrl
                 ELSE entry[1].displayUrl

\* a video without direct url whose variant of the highest bitrate is not
\* video/mp4 and whose second highest has no url: the third is selected and
\* is the openUrl of the entry
LowerMp4Selected ==
  /\ normalized # <<>>
  /\ post[1].url = <<>>
  /\ post[1].preview_image_url # <<>>
  /\ Len(post[1].variants) = 3
  /\ post[1].variants[1] = Variant("application/x-mpegURL", 832, <<"https://v/", "100">>)
  /\ post[1].variants[2] = Variant("video/mp4", 832, <<>>)
  /\ post[1].variants[3] = Variant("video/mp4", 256, <<"https://v/", "102">>)
  /\ normalized[1].videoUrl = <<"https://v/", "102">>
  /\ normalized[1].entry # <<>>
  /\ normalized[1].entry[1].openUrl = <<"https://v/", "102">>

----------------------------------------------------------------------------
\* C22: against a remote whose feeds only move forward, no two new_post
\* events of an account carry the same latestTweetId, and the latestTweetId of
\* an account never changes to an id it had before, whatever ticks fire while
\* requests are outstanding and in whatever order the responses arrive.
NoDuplicateNoStepBack ==
  [][ \A i \in DOMAIN accounts :
        /\ \A k, l \in NewPostsOf(i)' :
             k # l => events'[k].payload.account.latestTweetId
                        # events'[l].payload.account.latestTweetId
        /\ ( /\ accounts'[i].latestTweetId # accounts[i].latestTweetId
             /\ accounts'[i].latestTweetId # "" ) =>
             \A j \in DOMAIN hist[i] : hist[i][j].newest # accounts'[i].latestTweetId
    ]_vars

----------------------------------------------------------------------------
\* the usernames of the registry and of the file, in order
RegistryUsernames == [i \in DOMAIN accounts |-> Str(accounts[i].username)]
FileUsernames == [i \in DOMAIN file.entries |-> file.entries[i].username]

\* an add request answered other than 201 has left no account in the registry
FailedAddLeftNothing ==
  \A r \in DOMAIN adds :
    adds[r].status \notin {0, 201} => adds[r].acct \notin DOMAIN accounts

\* with no add request in progress the registry and the file agree
RegistryMatchesFile ==
  ( /\ phase = "serving"
    /\ \A r \in DOMAIN adds : adds[r].pc = "done" ) =>
    RegistryUsernames = FileUsernames

\* C23: whenever an add request has ended with a response other than 201, a
\* 500 after a failed save included, the registry holds no account of that
\* request; and whenever no add request is in progress, the registry and the
\* file hold the same usernames in the same order.
FailedAddIsRolledBack ==
  /\ FailedAddLeftNothing
  /\ RegistryMatchesFile

====
